---- MODULE Spec2Model ----
(***************************************************************************)
(* State-machine model of the Wialon remote-API client (wialon/sdk.py):    *)
(* the WialonSdk session, its generic dispatcher `call`, the dynamic       *)
(* method forwarding of __getattr__, login, logout, reverse_geocoding and  *)
(* the WialonError code table.                                             *)
(*                                                                         *)
(* Python values are tagged records; every tag has its own payload field   *)
(* so that values of different Python types are comparable.  A Python str  *)
(* is a sequence of one-character strings, so that str.replace, the `in`   *)
(* substring test and indexing are computed character by character; text   *)
(* that is only ever concatenated (URLs, JSON output) is a TLA+ string.    *)
(***************************************************************************)
EXTENDS Integers, Sequences, FiniteSets, TLC

VARIABLES
  phase,           \* "new" before WialonSdk(...), "ready" once __init__ returned, "failed" when it raised
  scheme,          \* self._scheme
  host,            \* self._host
  port,            \* self._port
  session_id,      \* self._session_id
  default_params,  \* self._default_params
  user_id,         \* self._user_id
  last             \* observation of the most recent operation: inputs, outcome, POSTs issued

vars == <<phase, scheme, host, port, session_id, default_params, user_id, last>>

-----------------------------------------------------------------------------
(* Bounds of the model *)

MaxNameLen == 3    \* longest generated method name
MaxPosArgs == 2    \* most positional arguments passed to a forwarded method

-----------------------------------------------------------------------------
(* Python values *)

None == [t |-> "None"]
PyStr(cs) == [t |-> "str", s |-> cs]
PyInt(n) == [t |-> "int", n |-> n]
PyBool(b) == [t |-> "bool", b |-> b]
PyList(xs) == [t |-> "list", xs |-> xs]
PyDict(kv) == [t |-> "dict", kv |-> kv]       \* insertion-ordered <<key, value>> pairs, keys are TLA+ strings
PyType == [t |-> "type"]                      \* a class object such as `str`: not JSON serializable
PyFunction(a) == [t |-> "function", addr |-> a]  \* the closure __getattr__ returns, living at address a

RECURSIVE Join(_)
Join(cs) == IF cs = <<>> THEN "" ELSE Head(cs) \o Join(Tail(cs))

\* dict operations on the insertion-ordered pair list
Has(kv, k) == \E i \in 1..Len(kv) : kv[i][1] = k
Get(kv, k) == kv[CHOOSE i \in 1..Len(kv) : kv[i][1] = k][2]
SetItem(kv, k, v) ==
  IF Has(kv, k) THEN [i \in 1..Len(kv) |-> IF kv[i][1] = k THEN <<k, v>> ELSE kv[i]]
  ELSE Append(kv, <<k, v>>)

RECURSIVE Update(_, _)
Update(kv, other) ==
  IF other = <<>> THEN kv
  ELSE Update(SetItem(kv, other[1][1], other[1][2]), Tail(other))

-----------------------------------------------------------------------------
(* Text conversions of the Python runtime *)

ErrorWord == <<"e", "r", "r", "o", "r">>

RECURSIVE PyRepr(_), ReprItems(_), ReprPairs(_)
\* repr(v)
PyRepr(v) ==
  CASE v.t = "None" -> "None"
    [] v.t = "str" -> "'" \o Join(v.s) \o "'"
    [] v.t = "int" -> ToString(v.n)
    [] v.t = "bool" -> IF v.b THEN "True" ELSE "False"
    [] v.t = "list" -> "[" \o ReprItems(v.xs) \o "]"
    [] v.t = "dict" -> "{" \o ReprPairs(v.kv) \o "}"
    [] v.t = "type" -> "<class 'str'>"
    [] v.t = "function" -> "<function WialonSdk.__getattr__.<locals>.method at 0x" \o v.addr \o ">"
ReprItems(xs) ==
  IF xs = <<>> THEN ""
  ELSE PyRepr(Head(xs)) \o (IF Len(xs) > 1 THEN ", " ELSE "") \o ReprItems(Tail(xs))
ReprPairs(kv) ==
  IF kv = <<>> THEN ""
  ELSE "'" \o kv[1][1] \o "': " \o PyRepr(kv[1][2])
       \o (IF Len(kv) > 1 THEN ", " ELSE "") \o ReprPairs(Tail(kv))

\* str(v), which is also what an f-string field {v} produces
StrOf(v) == IF v.t = "str" THEN Join(v.s) ELSE PyRepr(v)

RECURSIVE JsonSerializable(_)
\* json.dumps(v) raises TypeError on a value it has no encoding for
JsonSerializable(v) ==
  CASE v.t \in {"None", "str", "int", "bool"} -> TRUE
    [] v.t = "list" -> \A i \in 1..Len(v.xs) : JsonSerializable(v.xs[i])
    [] v.t = "dict" -> \A i \in 1..Len(v.kv) : JsonSerializable(v.kv[i][2])
    [] OTHER -> FALSE

RECURSIVE JsonDumps(_), DumpItems(_), DumpPairs(_)
\* json.dumps(v) with the default separators (", " and ": ")
JsonDumps(v) ==
  CASE v.t = "None" -> "null"
    [] v.t = "str" -> "\"" \o Join(v.s) \o "\""
    [] v.t = "int" -> ToString(v.n)
    [] v.t = "bool" -> IF v.b THEN "true" ELSE "false"
    [] v.t = "list" -> "[" \o DumpItems(v.xs) \o "]"
    [] v.t = "dict" -> "{" \o DumpPairs(v.kv) \o "}"
DumpItems(xs) ==
  IF xs = <<>> THEN ""
  ELSE JsonDumps(Head(xs)) \o (IF Len(xs) > 1 THEN ", " ELSE "") \o DumpItems(Tail(xs))
DumpPairs(kv) ==
  IF kv = <<>> THEN ""
  ELSE "\"" \o kv[1][1] \o "\": " \o JsonDumps(kv[1][2])
       \o (IF Len(kv) > 1 THEN ", " ELSE "") \o DumpPairs(Tail(kv))

RECURSIVE Replace(_, _, _, _)
\* str.replace(old, new, count) for a one-character old
Replace(s, old, new, count) ==
  IF s = <<>> \/ count = 0 THEN s
  ELSE IF Head(s) = old THEN <<new>> \o Replace(Tail(s), old, new, count - 1)
  ELSE <<Head(s)>> \o Replace(Tail(s), old, new, count)

\* `sub in s` for two str values
Substring(sub, s) ==
  \E i \in 0..(Len(s) - Len(sub)) : SubSeq(s, i + 1, i + Len(sub)) = sub

-----------------------------------------------------------------------------
(* Outcomes of an operation: what it returned or raised, the POSTs it      *)
(* issued on the way, and the session fields it left behind.               *)

NoOutcome ==
  [kind |-> "none", ret |-> None, code |-> "", reason |-> "", urls |-> <<>>,
   svc |-> <<>>, params |-> ""]

Return(v, urls, svc, params) ==
  [kind |-> "return", ret |-> v, code |-> "", reason |-> "", urls |-> urls,
   svc |-> svc, params |-> params]

\* an exception of class `kind` propagating to the caller
Raise(kind, urls, svc, params) ==
  [kind |-> kind, ret |-> None, code |-> "", reason |-> "", urls |-> urls,
   svc |-> svc, params |-> params]

-----------------------------------------------------------------------------
(* class WialonError *)

_errors ==
  [k \in {"-1", "1", "2", "3", "4", "5", "6", "7", "8", "9", "10", "11", "14",
          "1001", "1002", "1003", "1004", "1005", "1006", "1011", "2014", "2015"} |->
     CASE k = "-1" -> "Unhandled error code"
       [] k = "1" -> "Invalid session"
       [] k = "2" -> "Invalid service name"
       [] k = "3" -> "Invalid result"
       [] k = "4" -> "Invalid input"
       [] k = "5" -> "Error performing request"
       [] k = "6" -> "Unknown error"
       [] k = "7" -> "Access denied"
       [] k = "8" -> "Invalid user name or password"
       [] k = "9" -> "Authorization server is unavailable"
       [] k = "10" -> "Reached limit of concurrent requests"
       [] k = "11" -> "Password reset error"
       [] k = "14" -> "Billing error"
       [] k = "1001" -> "No messages for selected interval"
       [] k = "1002" -> "Item with such unique property already exists or Item"
                        \o "cannot be created according to billing restrictions"
       [] k = "1003" -> "Only one request is allowed at the moment"
       [] k = "1004" -> "Limit of messages has been exceeded"
       [] k = "1005" -> "Execution time has exceeded the limit"
       [] k = "1006" -> "Exceeding the limit of attempts to enter a two-factor authorization code"
       [] k = "1011" -> "Your IP has changed or session has expired"
       [] k = "2014" -> "Selected user is a creator for some system objects, thus this user cannot"
                        \o "be bound to a new account"
       [] k = "2015" -> "Sensor deleting is forbidden because of using in another sensor or advanced"
                        \o "properties of the unit"]

\* len(v) is defined for sized values only
HasLen(v) == v.t \in {"str", "list", "dict"}
PyLen(v) ==
  CASE v.t = "str" -> Len(v.s)
    [] v.t = "list" -> Len(v.xs)
    [] v.t = "dict" -> Len(v.kv)

\* WialonError.__init__(code, reason): the exception that ends up raised and its fields
WialonErrorInit(code, reason) ==
  LET known == StrOf(code) \in DOMAIN _errors
      _code == IF known THEN StrOf(code) ELSE "-1"
      base == IF known THEN _errors[StrOf(code)] ELSE _errors["-1"]
  IN IF ~HasLen(reason) THEN [raised |-> "TypeError", code |-> "", reason |-> ""]
     ELSE [raised |-> "WialonError",
           code |-> _code,
           reason |-> IF PyLen(reason) > 0 THEN base \o " - " \o StrOf(reason) ELSE base]

-----------------------------------------------------------------------------
(* class WialonSdk *)

\* the instance `self` as a record of its attributes
Self ==
  [scheme |-> scheme, host |-> host, port |-> port, session_id |-> session_id,
   default_params |-> default_params, user_id |-> user_id]

\* the number an int (or a bool, which is an int) stands for
IntValue(v) == IF v.t = "bool" THEN (IF v.b THEN 1 ELSE 0) ELSE v.n

\* the property base_url
base_url(self) ==
  LET url == IF IntValue(self.port) > 0
             THEN StrOf(self.scheme) \o "://" \o StrOf(self.host) \o ":" \o StrOf(self.port)
             ELSE StrOf(self.scheme) \o "://" \o StrOf(self.host)
  IN url \o "/wialon/ajax.html?"

\* method names the sources mention
unit_group_update_units ==
  <<"u","n","i","t","_","g","r","o","u","p","_","u","p","d","a","t","e","_","u","n","i","t","s">>
core_search_items == <<"c","o","r","e","_","s","e","a","r","c","h","_","i","t","e","m","s">>

\* call, lines 92-97 with every underscore replaced
ResolveSvcAllUnderscores(method) == Replace(method, "_", "/", -1)

\* call, lines 92-97: the service path of a method name
ResolveSvc(method) ==
  IF method = unit_group_update_units
  THEN <<"u","n","i","t","_","g","r","o","u","p","/","u","p","d","a","t","e","_","u","n","i","t","s">>
  ELSE Replace(method, "_", "/", 1)

\* dict.update(args) raises on an argument that is no mapping and no iterable of pairs
UpdateRaises(args) ==
  CASE args.t = "dict" -> ""
    [] args.t = "str" -> IF args.s = <<>> THEN "" ELSE "ValueError"
    [] OTHER -> "TypeError"

\* call, lines 99-105 with the defaults winning a key collision
AssembleArgumentsDefaultsWin(defaults, args) ==
  IF args.t = "list" THEN [raised |-> "", arguments |-> args]
  ELSE IF UpdateRaises(args) # "" THEN [raised |-> UpdateRaises(args), arguments |-> None]
  ELSE [raised |-> "",
        arguments |-> PyDict(Update(IF args.t = "dict" THEN args.kv ELSE <<>>, defaults.kv))]

\* call, lines 99-105: the local `arguments` that gets serialized
AssembleArguments(defaults, args) ==
  LET arguments0 == Update(<<>>, defaults.kv)
  IN IF args.t = "list" THEN [raised |-> "", arguments |-> args]
     ELSE IF UpdateRaises(args) # "" THEN [raised |-> UpdateRaises(args), arguments |-> None]
     ELSE [raised |-> "",
           arguments |-> PyDict(Update(arguments0, IF args.t = "dict" THEN args.kv ELSE <<>>))]

\* call, lines 112-120 with the pairs in the order svc, sid, params
BuildUrlSidBeforeParams(self, svc, params) ==
  base_url(self) \o "svc=" \o Join(svc) \o "&" \o "sid=" \o StrOf(self.session_id) \o "&"
    \o "params=" \o params \o "&"

\* call, lines 112-120: the dict `parameters` is walked in insertion order svc, params, sid
BuildUrl(self, svc, params) ==
  LET parameters == << <<"svc", Join(svc)>>, <<"params", params>>, <<"sid", StrOf(self.session_id)>> >>
      pair(i) == parameters[i][1] \o "=" \o parameters[i][2] \o "&"
  IN base_url(self) \o pair(1) \o pair(2) \o pair(3)

\* `'error' in response`: "" when it is False, "in" when it is True, else the exception raised
ErrorIn(response) ==
  CASE response.t = "dict" -> IF Has(response.kv, "error") THEN "in" ELSE ""
    [] response.t = "list" ->
         IF \E i \in 1..Len(response.xs) : response.xs[i] = PyStr(ErrorWord) THEN "in" ELSE ""
    [] response.t = "str" -> IF Substring(ErrorWord, response.s) THEN "in" ELSE ""
    [] OTHER -> "TypeError"

\* v != 0
NotZero(v) ==
  IF v.t \in {"int", "bool"} THEN IntValue(v) # 0 ELSE TRUE

\* call, lines 141-148: classification of the parsed response
Classify(response, urls, svc, params) ==
  IF ErrorIn(response) = "TypeError" THEN Raise("TypeError", urls, svc, params)
  ELSE IF ErrorIn(response) = "" THEN Return(response, urls, svc, params)
  ELSE IF response.t # "dict" THEN Raise("TypeError", urls, svc, params)
  ELSE IF ~NotZero(Get(response.kv, "error")) THEN Return(response, urls, svc, params)
  ELSE LET reason == IF Has(response.kv, "reason") THEN Get(response.kv, "reason") ELSE PyStr(<<>>)
           e == WialonErrorInit(Get(response.kv, "error"), reason)
       IN [Raise(e.raised, urls, svc, params) EXCEPT !.code = e.code, !.reason = e.reason]

\* what the server does with one POST
Failing == [b |-> "raise"]         \* requests.post raises
NotJson == [b |-> "notjson"]       \* request.json() raises
Json(v) == [b |-> "json", v |-> v] \* request.json() returns v

\* call(method, args)
call(self, method, args, server) ==
  LET svc == ResolveSvc(method)
      asm == AssembleArguments(self.default_params, args)
  IN IF asm.raised # "" THEN Raise(asm.raised, <<>>, svc, "")
     ELSE IF ~JsonSerializable(asm.arguments) THEN Raise("SdkException", <<>>, svc, "")
     ELSE LET params == JsonDumps(asm.arguments)
              url == BuildUrl(self, svc, params)
          IN CASE server.b = "raise" -> Raise("SdkException", <<url>>, svc, params)
               [] server.b = "notjson" -> Raise("SdkException", <<url>>, svc, params)
               [] server.b = "json" -> Classify(server.v, <<url>>, svc, params)

\* v[key] for a str key
Subscript(v, key) ==
  CASE v.t = "dict" -> IF Has(v.kv, key) THEN [raised |-> "", v |-> Get(v.kv, key)]
                       ELSE [raised |-> "KeyError", v |-> None]
    [] OTHER -> [raised |-> "TypeError", v |-> None]

\* v[0]
First(v) ==
  CASE v.t = "list" -> IF v.xs # <<>> THEN [raised |-> "", v |-> v.xs[1]]
                       ELSE [raised |-> "IndexError", v |-> None]
    [] v.t = "str" -> IF v.s # <<>> THEN [raised |-> "", v |-> PyStr(<<v.s[1]>>)]
                      ELSE [raised |-> "IndexError", v |-> None]
    [] v.t = "dict" -> [raised |-> "KeyError", v |-> None]
    [] OTHER -> [raised |-> "TypeError", v |-> None]

\* the names normal attribute lookup finds on an instance, so that __getattr__ is not consulted
Attributes ==
  {"_debug", "_scheme", "_host", "_port", "_session_id", "_default_params", "_user_id",
   "base_url", "call", "login", "logout", "reverse_geocoding"}

\* __getattr__(name): a new closure `method`, allocated at address addr
__getattr__(name, addr) == PyFunction(addr)

\* the closure `method` of __getattr__ called with positional and named arguments
method(self, name, args, kwargs, server) ==
  IF kwargs.kv # <<>> THEN Raise("TypeError", <<>>, <<>>, "")
  ELSE LET arguments == IF Len(args) > 0 THEN args[1] ELSE PyDict(<<>>)
       IN call(self, name, arguments, server)

token_login == <<"t","o","k","e","n","_","l","o","g","i","n">>
core_logout == <<"c","o","r","e","_","l","o","g","o","u","t">>

\* an operation's outcome together with the session fields it leaves
Done(out, uid, sid) == [out |-> out, user_id |-> uid, session_id |-> sid]

\* login(token)
login(self, token, server) ==
  LET result == method(self, token_login, << PyDict(<< <<"token", token>> >>) >>, PyDict(<<>>), server)
      user == Subscript(result.ret, "user")
      id == Subscript(user.v, "id")
      eid == Subscript(result.ret, "eid")
      failed(kind) == [result EXCEPT !.kind = kind, !.ret = None]
  IN IF result.kind # "return" THEN Done(result, self.user_id, self.session_id)
     ELSE IF user.raised # "" THEN Done(failed(user.raised), self.user_id, self.session_id)
     ELSE IF id.raised # "" THEN Done(failed(id.raised), self.user_id, self.session_id)
     ELSE IF eid.raised # "" THEN Done(failed(eid.raised), id.v, self.session_id)
     ELSE Done(result, id.v, eid.v)

\* logout that also forgets the session
logoutClearing(self, server) ==
  LET result == method(self, core_logout, <<>>, PyDict(<<>>), server)
  IN IF result.kind # "return" THEN Done(result, self.user_id, self.session_id)
     ELSE Done([result EXCEPT !.ret = None], PyStr(<<>>), PyStr(<<>>))

\* logout()
logout(self, server) ==
  LET result == method(self, core_logout, <<>>, PyDict(<<>>), server)
  IN IF result.kind # "return" THEN Done(result, self.user_id, self.session_id)
     ELSE Done([result EXCEPT !.ret = None], self.user_id, self.session_id)

\* self.<name> as Python resolves it; addr is where a closure made by __getattr__ lands
Attr(self, name, addr) ==
  IF name \in Attributes
  THEN CASE name = "_scheme" -> self.scheme
         [] name = "_host" -> self.host
         [] name = "_port" -> self.port
         [] name = "_session_id" -> self.session_id
         [] name = "_default_params" -> self.default_params
         [] name = "_user_id" -> self.user_id
         [] OTHER -> None
  ELSE __getattr__(name, addr)

\* reverse_geocoding(latitude, longitude, flags)
reverse_geocoding(self, latitude, longitude, flags, server, addr1, addr2) ==
  LET coordinates == JsonDumps(PyDict(<< <<"lon", longitude>>, <<"lat", latitude>> >>))
      url == "https://geocode-maps.wialon.com/" \o StrOf(Attr(self, "host", addr1)) \o "/gis_geocode?"
             \o "coords=[" \o coordinates \o "]&flags=" \o StrOf(flags)
             \o "&uid=" \o StrOf(Attr(self, "user_id", addr2))
  IN CASE server.b = "raise" -> Raise("SdkException", <<url>>, <<>>, "")
       [] server.b = "notjson" -> Raise("SdkException", <<url>>, <<>>, "")
       [] server.b = "json" ->
            IF First(server.v).raised # "" THEN Raise("SdkException", <<url>>, <<>>, "")
            ELSE Return(First(server.v).v, <<url>>, <<>>, "")

\* isinstance(v, str), isinstance(v, int), isinstance(v, dict)
IsStr(v) == v.t = "str"
IsInt(v) == v.t \in {"int", "bool"}
IsDict(v) == v.t = "dict"

\* __init__(scheme, host, port, session_id, extra_params): raises, or the attributes it stored
__init__(_scheme, _host, _port, _session_id, extra_params) ==
  IF ~IsStr(_scheme) \/ ~IsStr(_host) \/ ~IsInt(_port) \/ ~IsStr(_session_id)
  THEN [raised |-> "SdkException"]
  ELSE IF extra_params # None /\ ~IsDict(extra_params)
  THEN [raised |-> "SdkException"]
  ELSE [raised |-> "", scheme |-> _scheme, host |-> _host, port |-> _port,
        session_id |-> _session_id,
        default_params |-> PyDict(Update(<<>>, IF extra_params = None THEN <<>> ELSE extra_params.kv)),
        user_id |-> PyStr(<<>>)]

-----------------------------------------------------------------------------
(* Inputs: what callers pass and what the server answers *)

RECURSIVE SeqsUpTo(_, _)
\* the sequences over S of length at most n
SeqsUpTo(S, n) ==
  IF n = 0 THEN {<<>>}
  ELSE SeqsUpTo(S, n - 1) \cup {Append(q, x) : q \in SeqsUpTo(S, n - 1), x \in S}

\* method names: every short name over a letter and the underscore, and the names the sources mention
MethodNames ==
  SeqsUpTo({"a", "_"}, MaxNameLen) \cup {unit_group_update_units, core_search_items}

U1 == PyStr(<<"U", "1">>)
U2 == PyStr(<<"U", "2">>)
S1 == PyStr(<<"S", "1">>)
S2 == PyStr(<<"S", "2">>)

\* arguments of call: mappings (colliding with the defaults or not, serializable or not), lists, others
CallArgs ==
  {PyDict(<<>>), PyDict(<< <<"a", PyInt(2)>> >>), PyDict(<< <<"b", PyInt(2)>>, <<"a", PyInt(3)>> >>),
   PyDict(<< <<"b", PyType>> >>), PyList(<<>>), PyList(<< PyInt(1) >>), None}

\* positional arguments of a forwarded method
PosArgs == {PyDict(<< <<"a", PyInt(2)>> >>), PyList(<< PyInt(1) >>)}

\* named arguments of a forwarded method
KwArgs == {PyDict(<<>>), PyDict(<< <<"b", PyInt(3)>> >>)}

ErrorResponse(code) == PyDict(<< <<"error", code>> >>)
ErrorReason(code, reason) == PyDict(<< <<"error", code>>, <<"reason", reason>> >>)
LoginResponse(uid, eid) == PyDict(<< <<"user", PyDict(<< <<"id", uid>> >>)>>, <<"eid", eid>> >>)

\* JSON documents the server may answer with
JsonValues ==
  {PyDict(<<>>),
   PyDict(<< <<"items", PyList(<<>>)>> >>),
   ErrorResponse(PyInt(0)),
   PyDict(<< <<"error", PyInt(0)>>, <<"reason", PyStr(<<"r">>)>> >>),
   ErrorResponse(PyInt(7)),
   ErrorResponse(PyInt(1)),
   ErrorResponse(PyInt(2015)),
   ErrorResponse(PyInt(9999)),
   ErrorResponse(PyInt(12)),
   ErrorResponse(PyInt(-1)),
   ErrorResponse(PyStr(<<"7">>)),
   ErrorResponse(None),
   ErrorReason(PyInt(7), PyStr(<<"r">>)),
   ErrorReason(PyInt(7), PyStr(<<>>)),
   ErrorReason(PyInt(9999), PyStr(<<"r">>)),
   ErrorReason(PyInt(7), None),
   ErrorReason(PyInt(4), PyInt(5)),
   LoginResponse(U1, S1),
   LoginResponse(U2, S2),
   LoginResponse(U1, None),
   PyDict(<< <<"user", PyDict(<< <<"id", U2>> >>)>> >>),
   PyDict(<< <<"user", PyDict(<<>>)>>, <<"eid", S2>> >>),
   PyDict(<< <<"eid", S2>> >>),
   PyList(<<>>),
   PyList(<< PyDict(<< <<"city", PyStr(<<"x">>)>> >>) >>),
   PyList(<< PyStr(ErrorWord) >>),
   PyInt(5),
   PyInt(0),
   PyStr(<<"o", "k">>),
   PyStr(<<"n", "o", " ", "e", "r", "r", "o", "r">>),
   PyBool(TRUE),
   None}

NoServer == [b |-> "none"]
Servers == {Failing, NotJson} \cup {Json(v) : v \in JsonValues}

HTTPS == PyStr(<<"h", "t", "t", "p", "s">>)
HOST == PyStr(<<"h", ".", "i", "o">>)

Tokens == {PyStr(<<"t", "o", "k">>)}
Addresses == {"7f10", "7f20"}
DefaultFlags == 1255211008

-----------------------------------------------------------------------------
(* The state machine *)

Observe(op, m, args, kwargs, server, out) ==
  [op |-> op, method |-> m, args |-> args, kwargs |-> kwargs, server |-> server,
   out |-> out, pre |-> Self]

Init ==
  /\ phase = "new"
  /\ scheme = None /\ host = None /\ port = None /\ session_id = None
  /\ default_params = None /\ user_id = None
  /\ last = [op |-> "none", method |-> <<>>, args |-> None, kwargs |-> None,
             server |-> NoServer, out |-> NoOutcome,
             pre |-> [scheme |-> None, host |-> None, port |-> None, session_id |-> None,
                      default_params |-> None, user_id |-> None]]

\* sdk = WialonSdk(scheme, host, port, session_id, extra_params)
Construct(_scheme, _host, _port, _session_id, extra_params) ==
  LET r == __init__(_scheme, _host, _port, _session_id, extra_params)
      args == PyList(<<_scheme, _host, _port, _session_id, extra_params>>)
  IN /\ phase = "new"
     /\ IF r.raised # ""
        THEN /\ phase' = "failed"
             /\ last' = Observe("__init__", <<>>, args, None, NoServer, Raise(r.raised, <<>>, <<>>, ""))
             /\ UNCHANGED <<scheme, host, port, session_id, default_params, user_id>>
        ELSE /\ phase' = "ready"
             /\ scheme' = r.scheme /\ host' = r.host /\ port' = r.port
             /\ session_id' = r.session_id /\ default_params' = r.default_params
             /\ user_id' = r.user_id
             /\ last' = Observe("__init__", <<>>, args, None, NoServer, Return(None, <<>>, <<>>, ""))

\* sdk.base_url
BaseUrl ==
  /\ phase = "ready"
  /\ last' = Observe("base_url", <<>>, None, None, NoServer,
                     Return([t |-> "text", x |-> base_url(Self)], <<>>, <<>>, ""))
  /\ UNCHANGED <<phase, scheme, host, port, session_id, default_params, user_id>>

\* sdk.call(m, args)
Call(m, args, server) ==
  /\ phase = "ready"
  /\ last' = Observe("call", m, args, None, server, call(Self, m, args, server))
  /\ UNCHANGED <<phase, scheme, host, port, session_id, default_params, user_id>>

\* sdk.<name>(*args, **kwargs) for a name normal attribute lookup does not find
Forward(name, args, kwargs, server) ==
  /\ phase = "ready"
  /\ \A addr \in Addresses : Attr(Self, Join(name), addr) = __getattr__(Join(name), addr)
  /\ last' = Observe("forward", name, PyList(args), kwargs, server,
                     method(Self, name, args, kwargs, server))
  /\ UNCHANGED <<phase, scheme, host, port, session_id, default_params, user_id>>

\* sdk.login(token)
Login(token, server) ==
  LET r == login(Self, token, server)
  IN /\ phase = "ready"
     /\ last' = Observe("login", <<>>, PyList(<<token>>), None, server, r.out)
     /\ user_id' = r.user_id
     /\ session_id' = r.session_id
     /\ UNCHANGED <<phase, scheme, host, port, default_params>>

\* sdk.logout()
Logout(server) ==
  LET r == logout(Self, server)
  IN /\ phase = "ready"
     /\ last' = Observe("logout", <<>>, None, None, server, r.out)
     /\ user_id' = r.user_id
     /\ session_id' = r.session_id
     /\ UNCHANGED <<phase, scheme, host, port, default_params>>

\* sdk.reverse_geocoding(latitude, longitude, flags)
ReverseGeocoding(latitude, longitude, flags, server, addr1, addr2) ==
  /\ phase = "ready"
  /\ last' = Observe("reverse_geocoding", <<>>, PyList(<<latitude, longitude, flags>>), None, server,
                     reverse_geocoding(Self, latitude, longitude, flags, server, addr1, addr2))
  /\ UNCHANGED <<phase, scheme, host, port, session_id, default_params, user_id>>

\* calls: every method name, every argument shape and every behaviour of the server,
\* each against plain values of the other two
CallInputs ==
  (MethodNames \X {PyDict(<<>>)} \X {Json(PyDict(<<>>))})
    \cup ({core_search_items} \X CallArgs \X {Json(PyDict(<<>>))})
    \cup ({core_search_items} \X {PyDict(<< <<"a", PyInt(2)>> >>)} \X Servers)

\* forwarded calls: every way of passing arguments, against an answer that succeeds and one that fails
ForwardInputs ==
  {core_search_items} \X SeqsUpTo(PosArgs, MaxPosArgs) \X KwArgs
    \X {Json(PyDict(<<>>)), Json(ErrorResponse(PyInt(7)))}

\* answers to core/logout
LogoutServers == {Failing, Json(PyDict(<<>>)), Json(ErrorResponse(PyInt(1)))}

\* answers of the geocoding service
GeoServers ==
  {Failing, NotJson, Json(PyList(<<>>)), Json(PyList(<< PyDict(<< <<"city", PyStr(<<"x">>)>> >>) >>)),
   Json(PyDict(<<>>)), Json(PyStr(<<"o", "k">>)), Json(PyInt(5))}

Next ==
  \/ \E s \in {HTTPS, None}, h \in {HOST, PyInt(1)},
        p \in {PyInt(-1), PyInt(0), PyInt(443), PyStr(<<"4", "4", "3">>)},
        sid \in {PyStr(<<>>), None},
        ep \in {None, PyDict(<< <<"a", PyInt(1)>>, <<"c", PyInt(1)>> >>), PyList(<<>>)} :
       Construct(s, h, p, sid, ep)
  \/ BaseUrl
  \/ \E in \in CallInputs : Call(in[1], in[2], in[3])
  \/ \E in \in ForwardInputs : Forward(in[1], in[2], in[3], in[4])
  \/ \E token \in Tokens, server \in Servers : Login(token, server)
  \/ \E server \in LogoutServers : Logout(server)
  \/ \E lat \in {PyInt(1)}, lon \in {PyInt(2)}, flags \in {PyInt(DefaultFlags)},
        server \in GeoServers, a1 \in Addresses, a2 \in Addresses :
       ReverseGeocoding(lat, lon, flags, server, a1, a2)

Spec == Init /\ [][Next]_vars

-----------------------------------------------------------------------------
(* Properties *)

Calls == {"call", "forward", "login", "logout"}
Operations == Calls \cup {"base_url", "reverse_geocoding"}

\* the value an operation handed to call as `args`
CallArguments(l) ==
  CASE l.op = "call" -> l.args
    [] l.op = "login" -> PyDict(<< <<"token", l.args.xs[1]>> >>)
    [] l.op = "logout" -> PyDict(<<>>)
    [] l.op = "forward" -> IF l.args.xs = <<>> THEN PyDict(<<>>) ELSE l.args.xs[1]

\* whether the operation got as far as call's argument assembly
ReachedCall(l) == l.op \in Calls /\ (l.op = "forward" => l.kwargs.kv = <<>>)

\* position of the first underscore of a name that has one
FirstUnderscore(m) == CHOOSE i \in 1..Len(m) : m[i] = "_" /\ \A j \in 1..(i - 1) : m[j] # "_"

\* the service path the specification gives a method name
IsServicePathOf(svc, m) ==
  IF m = unit_group_update_units
  THEN svc = <<"u","n","i","t","_","g","r","o","u","p","/","u","p","d","a","t","e","_","u","n","i","t","s">>
  ELSE IF \E i \in 1..Len(m) : m[i] = "_"
  THEN /\ Len(svc) = Len(m)
       /\ \A i \in 1..Len(m) : svc[i] = IF i = FirstUnderscore(m) THEN "/" ELSE m[i]
  ELSE svc = m

\* C1: call resolves every method name to a service path: unit_group_update_units to
\* unit_group/update_units, any other name to itself with exactly its first underscore
\* (if it has one) replaced by a slash; the resolution is a function of the name alone
\* and yields a path whatever else the call does.
C1_ServicePath == last.op = "call" => IsServicePathOf(last.out.svc, last.method)

C1_Witness ==
  /\ last.op = "call"
  /\ last.method = core_search_items
  /\ last.out.svc = <<"c","o","r","e","/","s","e","a","r","c","h","_","i","t","e","m","s">>

\* C2: a forwarded method called with zero or one positional mapping and optional named
\* arguments behaves as call(name, mapping merged with the named arguments), and never
\* fails for want of such a method.
C2_Forwarding ==
  (/\ last.op = "forward"
   /\ Len(last.args.xs) <= 1
   /\ CallArguments(last).t = "dict")
  => /\ last.out = call(last.pre, last.method,
                        PyDict(Update(CallArguments(last).kv, last.kwargs.kv)), last.server)
     /\ last.out.kind \in {"return", "SdkException", "WialonError"}

\* the defaults overlaid with the caller's pairs, the caller winning
Overlay(defaults, caller) ==
  [i \in 1..Len(defaults) |->
     <<defaults[i][1],
       IF Has(caller, defaults[i][1]) THEN Get(caller, defaults[i][1]) ELSE defaults[i][2]>>]
    \o SelectSeq(caller, LAMBDA pr : ~Has(defaults, pr[1]))

\* C3: the params a call serializes are, for a mapping, the session's default_params
\* overlaid with the caller's pairs (the caller winning each collision) and, for a list,
\* that list alone; every serializable mapping or list is serialized; no operation
\* changes default_params.
C3_ArgumentAssembly ==
  /\ last.op \in Operations => default_params = last.pre.default_params
  /\ ReachedCall(last) =>
       LET a == CallArguments(last)
       IN /\ a.t = "dict" /\ JsonSerializable(PyDict(Overlay(default_params.kv, a.kv)))
             => last.out.params = JsonDumps(PyDict(Overlay(default_params.kv, a.kv)))
          /\ a.t = "list" /\ JsonSerializable(a) => last.out.params = JsonDumps(a)
          /\ ~JsonSerializable(a) => last.out.params = ""

C3_Witness ==
  /\ last.op = "call"
  /\ default_params = PyDict(<< <<"a", PyInt(1)>>, <<"c", PyInt(1)>> >>)
  /\ last.args = PyDict(<< <<"b", PyInt(2)>>, <<"a", PyInt(3)>> >>)
  /\ last.out.params = "{\"a\": 3, \"c\": 1, \"b\": 2}"

\* the 21 codes of the protocol error table
KnownCodes == (1..11) \cup {14} \cup (1001..1006) \cup {1011, 2014, 2015}

\* C4: a mapping-shaped response without an error key, or with error 0, is returned
\* verbatim; with a non-zero error the call fails with a Protocol error carrying the code
\* (or -1 for a code outside the table), the table's description, and the response's
\* reason after " - " exactly when a non-empty reason comes with it.
C4_Classification ==
  (/\ last.op = "call"
   /\ last.out.urls # <<>>
   /\ last.server.b = "json"
   /\ last.server.v.t = "dict")
  => LET response == last.server.v.kv
         code == Get(response, "error")
         known == \E n \in KnownCodes : StrOf(code) = ToString(n)
         normalized == IF known THEN StrOf(code) ELSE "-1"
         description == _errors[normalized]
         empty == Has(response, "reason") =>
                    Get(response, "reason") \in {PyStr(<<>>), PyList(<<>>), PyDict(<<>>)}
     IN IF ~Has(response, "error") \/ code = PyInt(0)
        THEN last.out.kind = "return" /\ last.out.ret = last.server.v
        ELSE /\ last.out.kind = "WialonError"
             /\ last.out.code = normalized
             /\ last.out.reason =
                  IF empty THEN description
                  ELSE description \o " - " \o StrOf(Get(response, "reason"))

\* the URL the specification gives a call: the pairs svc, sid, params
UrlAsSpecified(self, svc, params) ==
  StrOf(self.scheme) \o "://" \o StrOf(self.host)
    \o (IF self.port.n <= 0 THEN "" ELSE ":" \o ToString(self.port.n))
    \o "/wialon/ajax.html?" \o "svc=" \o Join(svc) \o "&sid=" \o StrOf(self.session_id)
    \o "&params=" \o params \o "&"

\* the URL with the pairs in the order svc, params, sid
UrlParamsBeforeSid(self, svc, params) ==
  StrOf(self.scheme) \o "://" \o StrOf(self.host)
    \o (IF self.port.n <= 0 THEN "" ELSE ":" \o ToString(self.port.n))
    \o "/wialon/ajax.html?" \o "svc=" \o Join(svc) \o "&params=" \o params
    \o "&sid=" \o StrOf(self.session_id) \o "&"

C6_SessionAfterLogin ==
  /\ last.op = "login" /\ last.out.kind = "return" =>
       /\ session_id = Get(last.server.v.kv, "eid")
       /\ user_id = Get(Get(last.server.v.kv, "user").kv, "id")
  /\ last.op \in Operations \ {"login"} =>
       session_id = last.pre.session_id /\ user_id = last.pre.user_id

C6_Witness ==
  /\ last.op = "logout"
  /\ last.out.kind = "return"
  /\ session_id = S1
  /\ user_id = U1

\* C7: a constructed session always has string scheme, host and session id and a port
\* >= 0, and a constructor call with an argument of the wrong type fails with a
\* Client-side failure, issues no request and yields no session.
C7_SessionInvariants ==
  /\ phase = "ready" =>
       IsStr(scheme) /\ IsStr(host) /\ IsStr(session_id) /\ port.t = "int" /\ port.n >= 0
  /\ last.op = "__init__" =>
       LET a == last.args.xs
           valid == /\ IsStr(a[1]) /\ IsStr(a[2]) /\ IsInt(a[3]) /\ IsStr(a[4])
                    /\ (a[5] = None \/ IsDict(a[5]))
       IN ~valid => phase = "failed" /\ last.out.kind = "SdkException" /\ last.out.urls = <<>>

\* C8: a call ends by returning the parsed response, with a Client-side failure or with a
\* Protocol error, and a parsed response that is no mapping with a non-zero error is
\* returned verbatim.
C8_OutcomeTotality ==
  last.op = "call" =>
    /\ last.out.kind \in {"return", "SdkException", "WialonError"}
    /\ (/\ last.out.urls # <<>>
        /\ last.server.b = "json"
        /\ ~(/\ last.server.v.t = "dict"
             /\ Has(last.server.v.kv, "error")
             /\ Get(last.server.v.kv, "error") # PyInt(0)))
       => last.out.kind = "return" /\ last.out.ret = last.server.v

\* C9: reverse_geocoding issues one POST to https://geocode-maps.<host>/gis_geocode with
\* the query coords=[{lon, lat}]&flags=<flags>&uid=<user id of the session>, and returns
\* element 0 of the parsed array.
C9_ReverseGeocoding ==
  last.op = "reverse_geocoding" =>
    LET a == last.args.xs
    IN /\ last.out.urls =
            << "https://geocode-maps." \o StrOf(host) \o "/gis_geocode?coords=["
               \o JsonDumps(PyDict(<< <<"lon", a[2]>>, <<"lat", a[1]>> >>))
               \o "]&flags=" \o StrOf(a[3]) \o "&uid=" \o StrOf(user_id) >>
       /\ (/\ last.server.b = "json" /\ last.server.v.t = "list" /\ last.server.v.xs # <<>>)
          => last.out.kind = "return" /\ last.out.ret = last.server.v.xs[1]

\* C10: a login that fails leaves the session id and the user id as they were before it.
C10_LoginAllOrNothing ==
  last.op = "login" /\ last.out.kind # "return" =>
    session_id = last.pre.session_id /\ user_id = last.pre.user_id

====
